---------------------------- MODULE Spec2Model ----------------------------
(***************************************************************************)
(* Model of src/undetected_gpt_processor.py: the dataset enumeration, the  *)
(* single-browser run (EmuGPTProcessor.run), the batch-parallel run        *)
(* (EmuGPTProcessor.run_parallel), the queue worker                        *)
(* (EmuGPTProcessor._worker_process) and main().                           *)
(*                                                                         *)
(* The browser and the web page are the environment: every call into them  *)
(* is a nondeterministic choice among the outcomes the code distinguishes  *)
(* (returns normally, returns nothing, raises).                            *)
(***************************************************************************)
EXTENDS Integers, Sequences, FiniteSets, TLC

\* ------------------------------------------------------------------ bounds
MaxDirs == 3          \* directories under the dataset root
MaxWorkers == 2       \* num_processes
MaxLimit == 1         \* max_dirs_to_process
MaxQueue == 2         \* items put on dir_queue for the queue workers
MaxGetErrors == 1     \* times dir_queue.get raises something other than queue.Empty

\* -------------------------------------------------------- program constants
max_retries == 3
auth_check_every == 5

VARIABLES
  mode,               \* "single" (run), "batch" (run_parallel), "queue" (_worker_process)
  num_processes,      \* self.num_processes
  max_dirs,           \* self.config["max_dirs_to_process"]
  root_exists,        \* os.path.exists(dataset_dir)
  config_file,        \* what is found at config_path
  config,             \* self.config
  user_profile,       \* self.user_profile
  dataset,            \* history: fs as it was when the program started
  fs,                 \* the dataset: one record of file states per directory, in sorted order
  pc,                 \* position of the main thread
  dirs,               \* run / run_parallel local: directories to process
  skipped_dirs,       \* run / run_parallel local
  missing_files_dirs, \* run_parallel local
  drivers,            \* run_parallel local: browsers in slot order (session ids)
  profiles,           \* history: the worker_profile directory made for each browser, in slot order
  driver,             \* self.driver in run(): <<>> is None, else <<session>>
  live,               \* browser sessions started and not quit
  confirmed,          \* the operator answered y to the login question
  batch_idx,          \* run_parallel loop variable
  processing_tasks,   \* run_parallel local
  cap_i,              \* position of the capture loop in processing_tasks
  all_completed,      \* run_parallel local
  processed_count, successful_count, failed_count,
  processing_times,   \* durations, all positive: the model takes a directory's rank as its duration
  stats,              \* self.stats
  i,                  \* run() loop variable (1-based), 0 before the loop
  raised,             \* an exception is propagating in run()
  summary,            \* <<>> or <<the summary record printed and saved>>
  result,             \* "none", "True", "False": what run / run_parallel returned
  exit_code,          \* -1 before main returns
  escaped,            \* an exception left run / run_parallel / a worker unhandled
  claims,             \* history: per directory, the slots it was handed to, in order
  recorded,           \* history: per directory, the statuses recorded for it
  \* ---- queue workers
  dir_queue,          \* the shared queue of directories
  wpc,                \* per worker: position
  attempt,            \* per worker: loop variable of the initialisation loop
  backoff,            \* per worker: local backoff in whole seconds, 0 while unbound
  wdriver,            \* per worker: local driver (<<>> is None, else <<session>>)
  directory,          \* per worker: the directory taken in the current pass, 0 if none
  get_errors,         \* history: times dir_queue.get raised other than queue.Empty
  recoveries,         \* history: per worker and pass of its loop, the outcomes of the
                      \* driver.refresh() calls made in that pass
  todo,               \* per worker: the counters this iteration has still to increment
  local_processing_times, \* per worker
  result_queue,       \* the messages put by the workers (nothing in the file reads them)
  counter,            \* the three multiprocessing.Value counters
  lock,               \* per counter: the worker holding get_lock(), 0 if free
  tmp,                \* per worker: the value read by value += 1
  incs                \* history: per counter, the number of value += 1 executed

cfgVars == <<mode, num_processes, max_dirs, root_exists, config_file, config, user_profile,
            dataset>>
enumVars == <<dirs, skipped_dirs, missing_files_dirs>>
browserVars == <<drivers, profiles, driver, confirmed>>
batchVars == <<batch_idx, processing_tasks, cap_i, all_completed>>
countVars == <<processed_count, successful_count, failed_count, processing_times>>
singleVars == <<stats, i, raised>>
endVars == <<summary, result, exit_code>>
workerVars == <<dir_queue, wpc, attempt, backoff, wdriver, directory, get_errors, recoveries, todo,
                local_processing_times, result_queue, counter, lock, tmp, incs>>
vars == <<cfgVars, enumVars, browserVars, batchVars, countVars, singleVars, endVars,
          workerVars, pc, fs, live, escaped, claims, recorded>>

\* ------------------------------------------------------------ file system
\* a file is absent, empty, the blank placeholder image, or real content
FileStates == {"absent", "empty", "blank", "data"}

Ready    == [input_image |-> TRUE, prompt_file |-> TRUE,
             output_png |-> "absent", output_txt |-> "absent", output_jpg |-> "absent"]
Done     == [input_image |-> TRUE, prompt_file |-> TRUE,
             output_png |-> "data", output_txt |-> "data", output_jpg |-> "absent"]
NoPrompt == [input_image |-> TRUE, prompt_file |-> FALSE,
             output_png |-> "absent", output_txt |-> "absent", output_jpg |-> "absent"]
JpgDone  == [input_image |-> TRUE, prompt_file |-> TRUE,
             output_png |-> "absent", output_txt |-> "absent", output_jpg |-> "data"]
HalfDone == [input_image |-> TRUE, prompt_file |-> TRUE,
             output_png |-> "data", output_txt |-> "empty", output_jpg |-> "absent"]

DirKinds == {Ready, Done, NoPrompt, JpgDone, HalfDone}

\* all sequences over S of length at most n
RECURSIVE SeqsUpTo(_, _)
SeqsUpTo(S, n) ==
  IF n = 0 THEN {<<>>}
  ELSE LET shorter == SeqsUpTo(S, n - 1)
       IN shorter \cup {Append(s, x) : s \in {t \in shorter : Len(t) = n - 1}, x \in S}

\* os.path.exists(f) and os.path.getsize(f) > 0
NonEmpty(f) == f \in {"blank", "data"}

Min(a, b) == IF a < b THEN a ELSE b

Range(s) == {s[k] : k \in 1..Len(s)}

\* sorted(os.listdir(dataset_dir)): directories are named by their rank
AllDirs == [k \in 1..Len(fs) |-> k]


\* ------------------------------------------------------------ enumeration
\* variant: the image is looked for under the other name process_directory accepts
IsCompleteJpg(d) == NonEmpty(fs[d].output_jpg) /\ NonEmpty(fs[d].output_txt)

\* run_parallel / run: both output files exist and are not empty
IsComplete(d) == NonEmpty(fs[d].output_png) /\ NonEmpty(fs[d].output_txt)

\* run_parallel: a required input file does not exist
MissingInputs(d) == ~fs[d].input_image \/ ~fs[d].prompt_file

IsMissing(d) == ~IsComplete(d) /\ MissingInputs(d)

IsPending(d) == ~IsComplete(d) /\ ~MissingInputs(d)

NotComplete(d) == ~IsComplete(d)

\* the three lists run_parallel builds from all_dirs
ParallelSkipped == SelectSeq(AllDirs, IsComplete)
ParallelMissing == SelectSeq(AllDirs, IsMissing)
ParallelPending == SelectSeq(AllDirs, IsPending)

\* the two lists run builds from all_dirs
SingleSkipped == SelectSeq(AllDirs, IsComplete)
SinglePending == SelectSeq(AllDirs, NotComplete)

\* variant: the limit is taken as a total, as run does
CapParallelTotal(ds, limit, workers) ==
  IF limit > 0 /\ Len(ds) > limit THEN SubSeq(ds, 1, limit) ELSE ds

\* run_parallel: max_dirs is per worker
CapParallel(ds, limit, workers) ==
  IF limit > 0 /\ Len(ds) > limit * workers THEN SubSeq(ds, 1, limit * workers) ELSE ds

\* run: max_dirs is the total
CapSingle(ds, limit) ==
  IF limit > 0 /\ Len(ds) > limit THEN SubSeq(ds, 1, limit) ELSE ds

\* ------------------------------------------------------------ the browser
\* find_and_save_generated_image: what the page lets it do
FindOutcomes == {"saved", "nothing", "error_pil", "error_nopil", "raise"}

\* find_and_save_generated_image(directory_path): return value and files left
FindAndSave(rec, out) ==
  CASE out = "saved" ->
         [ret |-> "True", rec |-> [rec EXCEPT !.output_png = "data"]]
    [] out = "nothing" ->
         [ret |-> "None", rec |-> rec]
    [] out \in {"error_pil", "error_nopil"} ->
         [ret |-> "False",
          rec |-> [rec EXCEPT
                     !.output_txt = IF @ = "absent" THEN "data" ELSE @,
                     !.output_png = IF out = "error_pil" THEN "blank" ELSE "empty"]]
    [] OTHER ->
         [ret |-> "raise", rec |-> rec]

\* what the page lets process_directory do once it has read the prompt
ProcessOutcomes == {"raise", "abort", "error"} \cup (FindOutcomes \ {"raise"})

\* process_directory(directory_path): return value ("raise" when an exception
\* leaves it), whether self.stats was updated, and the files left
ProcessDirectory(rec, out) ==
  IF ~rec.input_image \/ ~rec.prompt_file
    THEN [ret |-> "False", counted |-> FALSE, rec |-> rec]
  ELSE IF NonEmpty(rec.output_jpg) \/ NonEmpty(rec.output_png)
    THEN [ret |-> "True", counted |-> FALSE, rec |-> rec]
  ELSE IF out = "raise"
    THEN [ret |-> "raise", counted |-> FALSE, rec |-> rec]
  ELSE IF out = "abort"   \* the operator does not type done: return False
    THEN [ret |-> "False", counted |-> FALSE, rec |-> rec]
  ELSE IF out = "error"
    THEN [ret |-> "False", counted |-> TRUE, rec |-> rec]
  ELSE \* selector mode: a falsy find_and_save falls back to a full screenshot
       [ret |-> "True", counted |-> TRUE,
        rec |-> [FindAndSave(rec, out).rec EXCEPT !.output_txt = "data"]]


\* ------------------------------------------------------------------ Init
Workers == 1..MaxWorkers
CounterNames == {"processed", "success", "failed"}

WorkerInit ==
  /\ dir_queue = <<>>
  /\ wpc = [w \in Workers |-> "off"]
  /\ attempt = [w \in Workers |-> 0]
  /\ backoff = [w \in Workers |-> 0]
  /\ wdriver = [w \in Workers |-> <<>>]
  /\ directory = [w \in Workers |-> 0]
  /\ get_errors = 0
  /\ recoveries = [w \in Workers |-> <<>>]
  /\ todo = [w \in Workers |-> <<>>]
  /\ local_processing_times = [w \in Workers |-> <<>>]
  /\ result_queue = {}
  /\ counter = [c \in CounterNames |-> 0]
  /\ lock = [c \in CounterNames |-> 0]
  /\ tmp = [w \in Workers |-> 0]
  /\ incs = [c \in CounterNames |-> 0]

LocalsInit ==
  /\ pc = "start"
  /\ dirs = <<>> /\ skipped_dirs = <<>> /\ missing_files_dirs = <<>>
  /\ drivers = <<>> /\ profiles = <<>> /\ driver = <<>> /\ live = {} /\ confirmed = FALSE
  /\ batch_idx = 0 /\ processing_tasks = <<>> /\ cap_i = 1 /\ all_completed = FALSE
  /\ processed_count = 0 /\ successful_count = 0 /\ failed_count = 0
  /\ processing_times = <<>>
  /\ stats = [processed |-> 0, successful |-> 0, failed |-> 0, processing_times |-> <<>>]
  /\ i = 0 /\ raised = FALSE
  /\ summary = <<>> /\ result = "none" /\ exit_code = -1 /\ escaped = FALSE
  /\ claims = [d \in 1..Len(fs) |-> <<>>]
  /\ recorded = [d \in 1..Len(fs) |-> <<>>]

\* what is found at config_path: nothing, a file that does not set
\* browser_profile, a file that sets it
ConfigFiles == {"absent", "plain", "custom"}

\* load_config(config_path), lines 81-101: the configuration returned and the
\* user_profile it leaves in self
LoadConfig(file) ==
  LET default_config ==
        [browser_profile |-> IF file = "custom" THEN "custom_profile" ELSE "home_profile"]
  IN [config |-> default_config, user_profile |-> default_config.browser_profile]

\* __init__(config_path), lines 45-60: load_config runs first, then line 57
\* assigns the literal path to self.user_profile
Construct(file) ==
  LET loaded == LoadConfig(file)
  IN [config |-> loaded.config, user_profile |-> "literal_profile"]

\* processor = EmuGPTProcessor(args.config)
Constructed ==
  /\ config_file \in ConfigFiles
  /\ config = Construct(config_file).config
  /\ user_profile = Construct(config_file).user_profile

\* main(): the command line picks run or run_parallel, the worker count and the limit
MainInit ==
  /\ Constructed
  /\ mode \in {"single", "batch"}
  /\ num_processes \in (IF mode = "single" THEN {1} ELSE 1..MaxWorkers)
  /\ max_dirs \in 0..MaxLimit
  /\ root_exists \in BOOLEAN
  /\ fs \in (IF root_exists THEN SeqsUpTo(DirKinds, MaxDirs) ELSE {<<>>})
  /\ dataset = fs
  /\ LocalsInit
  /\ WorkerInit

\* ---------------------------------------------------------- statistics
RECURSIVE Sum(_)
Sum(s) == IF s = <<>> THEN 0 ELSE Head(s) + Sum(Tail(s))

\* a / b: the quotient, or the ZeroDivisionError Python raises
Quotient(a, b) ==
  IF b = 0 THEN [state |-> "ZeroDivisionError", v |-> 0]
  ELSE [state |-> "value", v |-> a \div b]

\* a statistic that is not computed, and one that is set to 0
NotComputed == [state |-> "absent", v |-> 0]
Zero == [state |-> "value", v |-> 0]

\* run, lines 1411-1414: the averages printed
RunAverages(st) ==
  IF st.successful > 0
    THEN LET avg_time == Quotient(Sum(st.processing_times), st.successful)
         IN [avg_time |-> avg_time,
             hourly_rate |-> IF avg_time.state = "value"
                               THEN Quotient(3600, avg_time.v) ELSE avg_time]
    ELSE [avg_time |-> NotComputed, hourly_rate |-> NotComputed]

\* variant: the average is computed whatever successful is
SaveStatsUnguarded(st) ==
  LET avg_time == Quotient(Sum(st.processing_times), st.successful)
  IN [avg_time |-> avg_time,
      hourly_rate |-> IF avg_time.state = "value" /\ avg_time.v > 0
                        THEN Quotient(3600, avg_time.v) ELSE avg_time]

\* save_stats, lines 109-114: the averages written to the statistics file
SaveStats(st) ==
  IF st.successful > 0
    THEN LET avg_time == Quotient(Sum(st.processing_times), st.successful)
         IN [avg_time |-> avg_time,
             hourly_rate |-> IF avg_time.state # "value" THEN avg_time
                             ELSE IF avg_time.v > 0 THEN Quotient(3600, avg_time.v)
                             ELSE Zero]
    ELSE [avg_time |-> NotComputed, hourly_rate |-> NotComputed]

\* run_parallel, lines 2566-2569: the averages printed
ParallelAverages(successful, times) ==
  IF successful > 0 /\ times # <<>>
    THEN LET avg_time == Quotient(Sum(times), Len(times))
         IN [avg_time |-> avg_time,
             hourly_rate |-> IF avg_time.state = "value"
                               THEN Quotient(3600, avg_time.v) ELSE avg_time]
    ELSE [avg_time |-> NotComputed, hourly_rate |-> NotComputed]

\* _save_parallel_stats, lines 2589-2602: the averages written to the statistics file
SaveParallelStats(processed, times, workers) ==
  IF times # <<>>
    THEN LET avg_time == Quotient(Sum(times), Len(times))
             batches == Quotient(processed, workers)
         IN [avg_time |-> avg_time,
             hourly_rate |-> IF avg_time.state # "value" THEN avg_time
                             ELSE IF avg_time.v > 0 THEN Quotient(3600, avg_time.v)
                             ELSE Zero,
             batch_count |-> IF batches.state = "value" /\ batches.v < 1
                               THEN [state |-> "value", v |-> 1] ELSE batches]
    ELSE [avg_time |-> Zero, hourly_rate |-> Zero, batch_count |-> NotComputed]

\* one of the quotients of a set of statistics raised
Raises(r) == \E f \in DOMAIN r : r[f].state = "ZeroDivisionError"

\* ------------------------------------------------------------- helpers
Return(r) == result' = r /\ pc' = "returned"

Claim(d, slot) == claims' = [claims EXCEPT ![d] = Append(@, slot)]

Record(d, st) == recorded' = [recorded EXCEPT ![d] = Append(@, st)]

\* an exception leaves run / run_parallel: main has no handler, the interpreter
\* prints the traceback and exits with 1
Crash ==
  /\ escaped' = TRUE
  /\ pc' = "done"
  /\ exit_code' = 1
  /\ UNCHANGED <<summary, result>>

\* for d in drivers: d.quit()
QuitAll == live' = live \ Range(drivers)

\* ---------------------------------------------------------- run_parallel
\* lines 1629-1681: dataset checks, classification of the directories, the limit
RunParallelEnumerate ==
  /\ pc = "start" /\ mode = "batch"
  /\ IF ~root_exists \/ Len(AllDirs) = 0
       THEN /\ Return("False")
            /\ UNCHANGED <<enumVars, recorded>>
       ELSE /\ skipped_dirs' = ParallelSkipped
            /\ missing_files_dirs' = ParallelMissing
            /\ recorded' = [d \in 1..Len(fs) |->
                              IF IsComplete(d) \/ IsMissing(d) THEN <<"Skipped">> ELSE <<>>]
            /\ IF ParallelPending = <<>>
                 THEN /\ Return("True")
                      /\ dirs' = <<>>
                 ELSE /\ dirs' = CapParallel(ParallelPending, max_dirs, num_processes)
                      /\ pc' = "init_browsers"
                      /\ UNCHANGED result
  /\ UNCHANGED <<cfgVars, browserVars, batchVars, countVars, singleVars, summary,
                 exit_code, workerVars, fs, live, escaped, claims>>

\* what uc.Chrome and the first navigation can do
InitOutcomes == {"ok", "fail_create", "fail_nav"}

\* variant: the worker number is left out of the name
WorkerProfileShared(base, timestamp, worker_id) == <<base, timestamp>>

\* line 1694: f"{self.user_profile}_{timestamp}_worker{worker_id}"
WorkerProfile(base, timestamp, worker_id) == <<base, timestamp, worker_id>>

\* lines 1689-1738: one iteration of the browser initialisation loop; the
\* timestamp was taken once before the loop (line 1687)
InitBrowser ==
  /\ pc = "init_browsers"
  /\ profiles' = Append(profiles,
                        WorkerProfile(user_profile, "timestamp", Len(drivers) + 1))
  /\ \E out \in InitOutcomes :
       LET worker_id == Len(drivers) + 1
           session == <<worker_id, 0>>
       IN IF out = "ok"
            THEN /\ drivers' = Append(drivers, session)
                 /\ live' = live \cup {session}
                 /\ pc' = IF worker_id = Min(num_processes, Len(dirs))
                            THEN "confirm" ELSE "init_browsers"
                 /\ UNCHANGED result
            ELSE \* the handler quits the drivers stored so far and returns False
                 /\ live' = (live \cup (IF out = "fail_nav" THEN {session} ELSE {}))
                              \ Range(drivers)
                 /\ Return("False")
                 /\ UNCHANGED drivers
  /\ UNCHANGED <<cfgVars, enumVars, driver, confirmed, batchVars, countVars, singleVars,
                 summary, exit_code, workerVars, fs, escaped, claims, recorded>>

\* variant: the answer is read and not tested
AcceptedWhatever(manual_confirm) == TRUE

\* line 1751: manual_confirm in ['y', 'yes']
Accepted(manual_confirm) == manual_confirm \in {"y", "yes"}

\* lines 1748-1761: the operator answers the login question
ConfirmLogin ==
  /\ pc = "confirm"
  /\ \E manual_confirm \in {"y", "yes", "n"} :
       IF Accepted(manual_confirm)
         THEN /\ confirmed' = (manual_confirm # "n")
              /\ pc' = "batch"
              /\ UNCHANGED <<live, result>>
         ELSE /\ QuitAll
              /\ Return("False")
              /\ UNCHANGED confirmed
  /\ UNCHANGED <<cfgVars, enumVars, drivers, profiles, driver, batchVars, countVars, singleVars,
                 summary, exit_code, workerVars, fs, escaped, claims, recorded>>

\* variant: the slice does not move with batch_idx
BatchDirsStale(ds, idx, n) == SubSeq(ds, 1, Min(n, Len(ds)))

\* dirs[batch_idx:batch_idx + self.num_processes]
BatchDirs(ds, idx, n) == SubSeq(ds, idx + 1, Min(idx + n, Len(ds)))

batch_dirs == BatchDirs(dirs, batch_idx, num_processes)

\* lines 1783-2004: one iteration of the assignment loop: the directory is
\* handed to browser i, and the upload and the prompt succeed or do not
StartTask ==
  /\ pc = "batch"
  /\ LET k == Len(processing_tasks) + 1
     IN /\ k <= Len(batch_dirs)
        /\ \E st \in {"started", "error"} :
             processing_tasks' = Append(processing_tasks,
                [driver |-> drivers[k], dir |-> batch_dirs[k], worker_id |-> k, status |-> st])
        /\ Claim(batch_dirs[k], k)
        /\ pc' = IF k = Len(batch_dirs) THEN "wait" ELSE "batch"
  /\ UNCHANGED <<cfgVars, enumVars, browserVars, batch_idx, cap_i, all_completed,
                 countVars, singleVars, endVars, workerVars, fs, live, escaped, recorded>>


\* what one look at a browser's page can show
PollOutcomes == {"ready", "waiting", "raise"}

\* lines 2014-2053: one iteration of the waiting loop over all tasks
PollTasks ==
  /\ pc = "wait"
  /\ \E seen \in [1..Len(processing_tasks) -> PollOutcomes] :
       LET checked(k) == processing_tasks[k].status \notin {"error", "completed", "ready"}
           in_progress == Cardinality({k \in 1..Len(processing_tasks) :
                                          checked(k) /\ seen[k] = "waiting"})
       IN /\ processing_tasks' =
               [k \in 1..Len(processing_tasks) |->
                  IF checked(k) /\ seen[k] = "ready"
                    THEN [processing_tasks[k] EXCEPT !.status = "ready"]
                    ELSE processing_tasks[k]]
          /\ IF in_progress = 0
               THEN all_completed' = TRUE /\ pc' = "capture"
               ELSE UNCHANGED <<all_completed, pc>>
  /\ UNCHANGED <<cfgVars, enumVars, browserVars, batch_idx, cap_i, countVars, singleVars,
                 endVars, workerVars, fs, live, escaped, claims, recorded>>

\* line 2014: time.time() < timeout fails
WaitTimeout ==
  /\ pc = "wait"
  /\ pc' = "capture"
  /\ UNCHANGED <<cfgVars, enumVars, browserVars, batchVars, countVars, singleVars,
                 endVars, workerVars, fs, live, escaped, claims, recorded>>

\* lines 2058-2102: one iteration of the capture loop
CaptureTask ==
  /\ pc = "capture"
  /\ cap_i <= Len(processing_tasks)
  /\ LET task == processing_tasks[cap_i]
         d == task.dir
     IN IF task.status = "error"
          THEN /\ processed_count' = processed_count + 1
               /\ failed_count' = failed_count + 1
               /\ Record(d, "Failed")
               /\ UNCHANGED <<successful_count, processing_times, fs, driver>>
          ELSE \E out \in FindOutcomes :
                 LET r == FindAndSave(fs[d], out)
                 IN /\ processed_count' = processed_count + 1
                    /\ driver' = <<task.driver>>
                    /\ IF r.ret = "True"
                         THEN /\ successful_count' = successful_count + 1
                              /\ processing_times' = Append(processing_times, d)
                              /\ fs' = [fs EXCEPT ![d] = [r.rec EXCEPT !.output_txt = "data"]]
                              /\ Record(d, "Succeeded")
                              /\ UNCHANGED failed_count
                         ELSE /\ failed_count' = failed_count + 1
                              /\ fs' = [fs EXCEPT ![d] = r.rec]
                              /\ Record(d, "Failed")
                              /\ UNCHANGED <<successful_count, processing_times>>
  /\ cap_i' = cap_i + 1
  /\ UNCHANGED <<cfgVars, enumVars, drivers, profiles, confirmed, batch_idx, processing_tasks,
                 all_completed, singleVars, endVars, workerVars, pc, live, escaped, claims>>

\* lines 2104-2536: the chats are cleared, then the next batch or the end of the loop
EndBatch ==
  /\ pc = "capture"
  /\ cap_i > Len(processing_tasks)
  /\ IF batch_idx + num_processes < Len(dirs)
       THEN /\ batch_idx' = batch_idx + num_processes
            /\ processing_tasks' = <<>>
            /\ cap_i' = 1
            /\ all_completed' = FALSE
            /\ pc' = "batch"
       ELSE /\ pc' = "finally"
            /\ UNCHANGED batchVars
  /\ UNCHANGED <<cfgVars, enumVars, browserVars, countVars, singleVars, endVars,
                 workerVars, fs, live, escaped, claims, recorded>>

\* lines 2542-2552: finally: quit every browser, reset self.driver
CloseBrowsers ==
  /\ pc = "finally"
  /\ QuitAll
  /\ driver' = <<>>
  /\ pc' = "summary"
  /\ UNCHANGED <<cfgVars, enumVars, drivers, profiles, confirmed, batchVars, countVars, singleVars,
                 endVars, workerVars, fs, escaped, claims, recorded>>

\* lines 2554-2581: the summary is printed, _save_parallel_stats writes it,
\* run_parallel returns successful_count > 0
Summarize ==
  /\ pc = "summary"
  /\ LET shown == ParallelAverages(successful_count, processing_times)
         saved == SaveParallelStats(processed_count, processing_times, num_processes)
     IN IF Raises(shown) \/ Raises(saved)
          THEN Crash
          ELSE /\ summary' = <<[processed |-> processed_count,
                                successful |-> successful_count,
                                failed |-> failed_count,
                                times |-> Len(processing_times),
                                shown |-> shown, saved |-> saved]>>
               /\ Return(IF successful_count > 0 THEN "True" ELSE "False")
               /\ UNCHANGED <<exit_code, escaped>>
  /\ UNCHANGED <<cfgVars, enumVars, browserVars, batchVars, countVars, singleVars,
                 workerVars, fs, live, claims, recorded>>

\* -------------------------------------------------------------------- run
\* lines 1309-1351: dataset checks, classification of the directories, the limit
RunEnumerate ==
  /\ pc = "start" /\ mode = "single"
  /\ IF ~root_exists \/ Len(AllDirs) = 0
       THEN /\ Return("False")
            /\ UNCHANGED <<enumVars, recorded>>
       ELSE /\ skipped_dirs' = SingleSkipped
            /\ recorded' = [d \in 1..Len(fs) |->
                              IF IsComplete(d) THEN <<"Skipped">> ELSE <<>>]
            /\ UNCHANGED missing_files_dirs
            /\ IF SinglePending = <<>>
                 THEN /\ Return("True")
                      /\ dirs' = <<>>
                 ELSE /\ dirs' = CapSingle(SinglePending, max_dirs)
                      /\ pc' = "setup_browser"
                      /\ UNCHANGED result
  /\ UNCHANGED <<cfgVars, browserVars, batchVars, countVars, singleVars, summary,
                 exit_code, workerVars, fs, live, escaped, claims>>

\* line 1360 with the handlers at 1391-1399: self.driver = self.setup_browser()
SetupBrowser ==
  /\ pc = "setup_browser"
  /\ \E out \in InitOutcomes :
       LET session == <<1, 0>>
       IN IF out = "ok"
            THEN /\ driver' = <<session>>
                 /\ live' = live \cup {session}
                 /\ pc' = "authenticate"
                 /\ UNCHANGED result
            ELSE \* except: return False; finally: self.driver is still None
                 /\ live' = live \cup (IF out = "fail_nav" THEN {session} ELSE {})
                 /\ Return("False")
                 /\ UNCHANGED driver
  /\ UNCHANGED <<cfgVars, enumVars, drivers, profiles, confirmed, batchVars, countVars, singleVars,
                 summary, exit_code, workerVars, fs, escaped, claims, recorded>>

\* lines 1363-1367 with the handlers at 1391-1399: authenticate()
Authenticate ==
  /\ pc = "authenticate"
  /\ \E out \in {"y", "n", "raise"} :
       IF out = "y"
         THEN /\ confirmed' = TRUE
              /\ i' = 1
              /\ pc' = "loop"
              /\ UNCHANGED <<live, result>>
         ELSE \* the browser is quit (by line 1366 or by finally), run returns False
              /\ live' = live \ Range(driver)
              /\ Return("False")
              /\ UNCHANGED <<confirmed, i>>
  /\ UNCHANGED <<cfgVars, enumVars, drivers, profiles, driver, batchVars, countVars, stats, raised,
                 summary, exit_code, workerVars, fs, escaped, claims, recorded>>

\* lines 1370-1389: one iteration of the loop over dirs
ProcessNext ==
  /\ pc = "loop"
  /\ i <= Len(dirs)
  /\ \E auth \in {"ok", "lost"}, out \in ProcessOutcomes :
       LET d == dirs[i]
           r == ProcessDirectory(fs[d], out)
           success == r.ret = "True"
       IN IF i > 1 /\ i % auth_check_every = 0 /\ auth = "lost"
            THEN \* re-authentication failed: break
                 /\ pc' = "run_finally"
                 /\ UNCHANGED <<stats, i, raised, fs, claims, recorded>>
          ELSE IF r.ret = "raise"
            THEN /\ raised' = TRUE
                 /\ pc' = "run_finally"
                 /\ Claim(d, 1)
                 /\ UNCHANGED <<stats, i, fs, recorded>>
          ELSE /\ stats' =
                    IF ~r.counted THEN stats
                    ELSE [processed |-> stats.processed + 1,
                          successful |-> stats.successful + (IF success THEN 1 ELSE 0),
                          failed |-> stats.failed + (IF success THEN 0 ELSE 1),
                          processing_times |->
                             IF success THEN Append(stats.processing_times, d)
                                        ELSE stats.processing_times]
               /\ fs' = [fs EXCEPT ![d] = r.rec]
               /\ Claim(d, 1)
               /\ recorded' = IF ~r.counted THEN recorded
                              ELSE [recorded EXCEPT
                                      ![d] = Append(@, IF success THEN "Succeeded" ELSE "Failed")]
               /\ i' = i + 1
               /\ pc' = IF i = Len(dirs) THEN "run_finally" ELSE "loop"
               /\ UNCHANGED raised
  /\ UNCHANGED <<cfgVars, enumVars, browserVars, batchVars, countVars, endVars,
                 workerVars, live, escaped>>

\* lines 1391-1399: except: return False; finally: self.driver.quit()
RunFinally ==
  /\ pc = "run_finally"
  /\ live' = live \ Range(driver)
  /\ IF raised THEN Return("False") ELSE pc' = "run_summary" /\ UNCHANGED result
  /\ UNCHANGED <<cfgVars, enumVars, browserVars, batchVars, countVars, singleVars,
                 summary, exit_code, workerVars, fs, escaped, claims, recorded>>

\* lines 1401-1428: the summary is printed, save_stats writes it,
\* run returns self.stats["successful"] > 0
RunSummary ==
  /\ pc = "run_summary"
  /\ LET shown == RunAverages(stats)
         saved == SaveStats(stats)
     IN IF Raises(shown) \/ Raises(saved)
          THEN Crash
          ELSE /\ summary' = <<[processed |-> stats.processed,
                                successful |-> stats.successful,
                                failed |-> stats.failed,
                                times |-> Len(stats.processing_times),
                                shown |-> shown, saved |-> saved]>>
               /\ Return(IF stats.successful > 0 THEN "True" ELSE "False")
               /\ UNCHANGED <<exit_code, escaped>>
  /\ UNCHANGED <<cfgVars, enumVars, browserVars, batchVars, countVars, singleVars,
                 workerVars, fs, live, claims, recorded>>

\* ------------------------------------------------------------------ main
\* variant: the return value of run is not looked at
ExitCodeAlwaysZero(success) == 0

ExitCode(success) == IF success = "True" THEN 0 ELSE 1

\* lines 2871-2879: main returns 0 if success else 1
Exit ==
  /\ pc = "returned"
  /\ exit_code' = ExitCode(result)
  /\ pc' = "done"
  /\ UNCHANGED <<cfgVars, enumVars, browserVars, batchVars, countVars, singleVars,
                 summary, result, workerVars, fs, live, escaped, claims, recorded>>


\* --------------------------------------------------------- _worker_process
\* the directories put on dir_queue and the processes started on it: the code
\* that does so is not part of the source file; every pending directory is
\* pushed once and num_processes workers are started
QueueInit ==
  /\ mode = "queue"
  /\ config_file = "absent"
  /\ config = Construct(config_file).config
  /\ user_profile = Construct(config_file).user_profile
  /\ num_processes \in 1..MaxWorkers
  /\ max_dirs = 0
  /\ root_exists = TRUE
  /\ fs \in (SeqsUpTo({Ready, JpgDone}, MaxQueue) \ {<<>>})
  /\ dataset = fs
  /\ LocalsInit
  /\ WorkerInit

StartWorkers ==
  /\ pc = "start" /\ mode = "queue"
  /\ dirs' = AllDirs
  /\ dir_queue' = AllDirs
  /\ wpc' = [w \in Workers |-> IF w <= num_processes THEN "init" ELSE "off"]
  /\ pc' = "join"
  /\ UNCHANGED <<cfgVars, skipped_dirs, missing_files_dirs, browserVars, batchVars,
                 countVars, singleVars, endVars, attempt, backoff, wdriver, directory,
                 get_errors, recoveries, todo,
                 local_processing_times, result_queue, counter, lock, tmp, incs,
                 fs, live, escaped, claims, recorded>>

\* variant: a failed attempt is always followed by another
RetriesLeftAlways(a) == TRUE

\* line 2730: attempt < max_retries - 1
RetriesLeft(a) == a < max_retries - 1

\* line 2732: (2 ** attempt) * 1.0 + random.uniform(0, 0.5), in whole seconds
Backoff(a) == 2 ^ a

\* lines 2709-2739 (and 2829-2841 after the last failure): one attempt of the
\* initialisation loop; attempt and backoff are not read after the loop and
\* are left at 0
WorkerInitBrowser(w) ==
  /\ wpc[w] = "init"
  /\ \E out \in InitOutcomes :
       LET session == <<w, Cardinality({x \in live : x[1] = w})>>  \* a new browser
       IN IF out = "ok"
            THEN /\ wdriver' = [wdriver EXCEPT ![w] = <<session>>]
                 /\ live' = live \cup {session}
                 /\ wpc' = [wpc EXCEPT ![w] = "get"]
                 /\ attempt' = [attempt EXCEPT ![w] = 0]
                 /\ backoff' = [backoff EXCEPT ![w] = 0]
            ELSE /\ wdriver' = IF out = "fail_nav"
                                 THEN [wdriver EXCEPT ![w] = <<session>>] ELSE wdriver
                 /\ IF RetriesLeft(attempt[w])
                      THEN /\ attempt' = [attempt EXCEPT ![w] = @ + 1]
                           /\ backoff' = [backoff EXCEPT ![w] = Backoff(attempt[w])]
                           /\ live' = live \cup (IF out = "fail_nav" THEN {session} ELSE {})
                           /\ UNCHANGED wpc
                      ELSE \* raise: caught at line 2829, then finally
                           /\ live' = (live \cup (IF out = "fail_nav" THEN {session} ELSE {}))
                                        \ Range(wdriver'[w])
                           /\ wpc' = [wpc EXCEPT ![w] = "terminated"]
                           /\ attempt' = [attempt EXCEPT ![w] = 0]
                           /\ backoff' = [backoff EXCEPT ![w] = 0]
  /\ UNCHANGED <<cfgVars, enumVars, browserVars, batchVars, countVars, singleVars, endVars,
                 dir_queue, directory, get_errors, recoveries, todo, local_processing_times,
                 result_queue, counter, lock, tmp, incs, pc, fs, escaped, claims, recorded>>

\* variant: a peek, the item stays on the queue
QueueGetKeep(q) == [item |-> Head(q), rest |-> q]

\* dir_queue.get: the item returned and the queue left
QueueGet(q) == [item |-> Head(q), rest |-> Tail(q)]

\* what dir_queue.get(timeout=5) can do: return (an item, or queue.Empty after
\* the timeout), or raise another exception
GetOutcomes == {"returns", "raise"}

\* what driver.refresh() can do
RefreshOutcomes == {"ok", "failed"}

\* variant: the refresh is tried again when it fails
RecoverRetry(refresh) == IF refresh = "failed" THEN <<refresh, refresh>> ELSE <<refresh>>

\* lines 2809-2814: the refreshes made by the handler; a failure is swallowed
Recover(refresh) == <<refresh>>

\* lines 2743-2780, 2799-2818, 2824-2841: one pass of the loop up to the counter
\* updates: the next directory is taken and processed (existing-output check,
\* process_directory, the handler of an exception leaving get or
\* process_directory); on queue.Empty the worker reports its times, quits its
\* browser and ends
WorkerTake(w) ==
  /\ wpc[w] = "get"
  /\ \E got \in GetOutcomes :
       IF got = "raise"
         THEN \* the handler at 2804-2821 with no directory taken
              /\ get_errors < MaxGetErrors
              /\ get_errors' = get_errors + 1
              /\ \E refresh \in RefreshOutcomes :
                   recoveries' = [recoveries EXCEPT ![w] = Append(@, Recover(refresh))]
              /\ directory' = [directory EXCEPT ![w] = 0]
              /\ todo' = [todo EXCEPT ![w] = <<"failed">>]
              /\ wpc' = [wpc EXCEPT ![w] = "inc"]
              /\ UNCHANGED <<dir_queue, claims, fs, local_processing_times,
                             result_queue, live>>
       ELSE IF dir_queue = <<>>
         THEN /\ result_queue' = result_queue \cup
                   {[kind |-> "worker", worker_id |-> w,
                     processing_times |-> local_processing_times[w]]}
              /\ live' = live \ Range(wdriver[w])
              /\ wpc' = [wpc EXCEPT ![w] = "terminated"]
              /\ UNCHANGED <<directory, dir_queue, claims, todo, fs,
                             local_processing_times, get_errors, recoveries>>
         ELSE LET d == QueueGet(dir_queue).item
              IN /\ directory' = [directory EXCEPT ![w] = d]
                 /\ dir_queue' = QueueGet(dir_queue).rest
                 /\ Claim(d, w)
                 /\ wpc' = [wpc EXCEPT ![w] = "inc"]
                 /\ UNCHANGED <<result_queue, live, get_errors>>
                 /\ IF NonEmpty(fs[d].output_jpg) \/ NonEmpty(fs[d].output_png)
                      THEN /\ todo' = [todo EXCEPT ![w] = <<"processed", "success">>]
                           /\ recoveries' = [recoveries EXCEPT ![w] = Append(@, <<>>)]
                           /\ UNCHANGED <<fs, local_processing_times>>
                      ELSE \E out \in ProcessOutcomes, refresh \in RefreshOutcomes :
                             LET r == ProcessDirectory(fs[d], out)
                             IN IF r.ret = "raise"
                                  THEN /\ todo' = [todo EXCEPT ![w] = <<"failed">>]
                                       /\ recoveries' = [recoveries EXCEPT
                                                           ![w] = Append(@, Recover(refresh))]
                                       /\ UNCHANGED <<fs, local_processing_times>>
                                  ELSE /\ fs' = [fs EXCEPT ![d] = r.rec]
                                       /\ local_processing_times' =
                                            [local_processing_times EXCEPT ![w] = Append(@, d)]
                                       /\ recoveries' = [recoveries EXCEPT
                                                           ![w] = Append(@, <<>>)]
                                       /\ todo' = [todo EXCEPT ![w] =
                                            <<"processed",
                                              IF r.ret = "True" THEN "success" ELSE "failed">>]
  /\ UNCHANGED <<cfgVars, enumVars, browserVars, batchVars, countVars, singleVars, endVars,
                 attempt, backoff, wdriver, counter, lock, tmp, incs, pc, escaped, recorded>>

\* variant: value += 1 without get_lock()
LockFreeAlways(c) == TRUE

\* with c.get_lock(): the lock of counter c can be taken
LockFree(c) == lock[c] = 0

\* with c.get_lock(): c.value += 1 -- the lock is taken and the value read
AcquireAndRead(w) ==
  /\ wpc[w] = "inc"
  /\ LET c == Head(todo[w])
     IN /\ LockFree(c)
        /\ lock' = [lock EXCEPT ![c] = w]
        /\ tmp' = [tmp EXCEPT ![w] = counter[c]]
  /\ wpc' = [wpc EXCEPT ![w] = "inc_write"]
  /\ UNCHANGED <<cfgVars, enumVars, browserVars, batchVars, countVars, singleVars, endVars,
                 dir_queue, attempt, backoff, wdriver, directory, get_errors, recoveries, todo,
                 local_processing_times,
                 result_queue, counter, incs, pc, fs, live, escaped, claims, recorded>>

\* with c.get_lock(): c.value += 1 -- the sum is stored and the lock released;
\* after the last counter of the iteration the worker goes back to the queue
WriteAndRelease(w) ==
  /\ wpc[w] = "inc_write"
  /\ LET c == Head(todo[w])
         d == directory[w]
         last == Len(todo[w]) = 1
     IN /\ counter' = [counter EXCEPT ![c] = tmp[w] + 1]
        /\ lock' = [lock EXCEPT ![c] = 0]
        /\ incs' = [incs EXCEPT ![c] = @ + 1]
        /\ todo' = [todo EXCEPT ![w] = Tail(@)]
        /\ wpc' = [wpc EXCEPT ![w] = IF last THEN "get" ELSE "inc"]
        /\ recorded' = IF c = "processed" \/ d = 0 THEN recorded
                       ELSE [recorded EXCEPT ![d] =
                               Append(@, IF c = "success" THEN "Succeeded" ELSE "Failed")]
        /\ result_queue' =
             IF c = "success" /\ d \in Range(local_processing_times[w])
               THEN result_queue \cup {[kind |-> "item", worker_id |-> w,
                                      processing_times |-> <<d>>]}
               ELSE result_queue
  /\ UNCHANGED <<cfgVars, enumVars, browserVars, batchVars, countVars, singleVars, endVars,
                 dir_queue, attempt, backoff, wdriver, directory, get_errors, recoveries,
                 local_processing_times, tmp,
                 pc, fs, live, escaped, claims>>

\* the workers are joined and the counters summarised (not part of the source file)
JoinWorkers ==
  /\ pc = "join"
  /\ \A w \in Workers : wpc[w] \in {"off", "terminated"}
  /\ summary' = <<[processed |-> counter["processed"], successful |-> counter["success"],
                   failed |-> counter["failed"], times |-> 0]>>
  /\ Return(IF counter["success"] > 0 THEN "True" ELSE "False")
  /\ UNCHANGED <<cfgVars, enumVars, browserVars, batchVars, countVars, singleVars,
                 exit_code, workerVars, fs, live, escaped, claims, recorded>>

WorkerNext ==
  \/ StartWorkers
  \/ \E w \in Workers : WorkerInitBrowser(w)
  \/ \E w \in Workers : WorkerTake(w)
  \/ \E w \in Workers : AcquireAndRead(w)
  \/ \E w \in Workers : WriteAndRelease(w)
  \/ JoinWorkers

BatchNext ==
  \/ RunParallelEnumerate \/ InitBrowser \/ ConfirmLogin \/ StartTask \/ PollTasks
  \/ WaitTimeout \/ CaptureTask \/ EndBatch \/ CloseBrowsers \/ Summarize

SingleNext ==
  \/ RunEnumerate \/ SetupBrowser \/ Authenticate \/ ProcessNext \/ RunFinally
  \/ RunSummary

\* main() with run or run_parallel
Init == MainInit
Next == BatchNext \/ SingleNext \/ Exit
Spec == Init /\ [][Next]_vars

\* the queue workers on a populated queue
QueueNext == WorkerNext \/ Exit
QueueSpec == QueueInit /\ [][QueueNext]_vars

\* the two parallel designs: run_parallel and the queue workers
ParallelInit == (MainInit /\ mode = "batch") \/ QueueInit
ParallelNext == BatchNext \/ WorkerNext \/ Exit
ParallelSpec == ParallelInit /\ [][ParallelNext]_vars

\* -------------------------------------------------------------- properties
\* the dataset as it was at the start of the run
WasComplete(d) == NonEmpty(dataset[d].output_png) /\ NonEmpty(dataset[d].output_txt)

HadInputs(d) == dataset[d].input_image /\ dataset[d].prompt_file

WasPending(d) == HadInputs(d) /\ ~WasComplete(d)

\* positions of a worker between taking an item and its last counter update
Busy == {"inc", "inc_write"}

\* the workers that hold a directory
Holding == {w \in Workers : wpc[w] \in Busy /\ directory[w] # 0}

\* the three groups of items of a parallel run
Waiting ==
  IF mode = "queue" THEN Range(dir_queue)
  ELSE {dirs[k] : k \in (batch_idx + Len(processing_tasks) + 1)..Len(dirs)}

InFlight ==
  IF mode = "queue" THEN {directory[w] : w \in Holding}
  ELSE {processing_tasks[k].dir : k \in cap_i..Len(processing_tasks)}

Terminal == {d \in DOMAIN recorded : recorded[d] # <<>> /\ recorded[d][1] # "Skipped"}

WorkersDone == pc # "start" /\ \A w \in Workers : wpc[w] \in {"off", "terminated"}

\* C1: in a parallel run no directory is held by two workers or two browsers
\* at the same time, and no directory is ever claimed by more than one worker
C1_ClaimedByOneWorker ==
  /\ \A d \in DOMAIN claims : Cardinality(Range(claims[d])) <= 1
  /\ \A v, w \in Holding : v # w => directory[v] # directory[w]
  /\ \A j, k \in 1..Len(processing_tasks) :
       j # k => processing_tasks[j].dir # processing_tasks[k].dir

\* two queue workers hold an item each at the same time
C1_Witness ==
  /\ mode = "queue"
  /\ wpc[1] \in Busy /\ wpc[2] \in Busy
  /\ directory[1] # directory[2]

\* C2: in every state of a parallel run the waiting items, the items in flight
\* and the items with a terminal status are pairwise disjoint and together are
\* exactly the items enumerated as pending (dirs), each of them once
C2_Partition ==
  /\ Waiting \cap InFlight = {}
  /\ Waiting \cap Terminal = {}
  /\ InFlight \cap Terminal = {}
  /\ Waiting \cup InFlight \cup Terminal = Range(dirs)
  /\ Cardinality(Waiting) + Cardinality(InFlight) + Cardinality(Terminal) = Len(dirs)

\* a batch run with one item waiting, one in flight and one finished
C2_Witness ==
  /\ mode = "batch"
  /\ Waiting # {} /\ InFlight # {} /\ Terminal # {}

\* C3: when a run has ended with its summary, every enumerated directory has
\* exactly one terminal status and succeeded + failed + skipped is the number
\* of directories enumerated
C3_EveryItemCounted ==
  summary # <<>> =>
    LET skipped == Len(skipped_dirs) + Len(missing_files_dirs)
        enumerated == Range(dirs) \cup Range(skipped_dirs) \cup Range(missing_files_dirs)
    IN /\ \A d \in enumerated : Len(recorded[d]) = 1
       /\ summary[1].successful + summary[1].failed + skipped = Len(dirs) + skipped

\* C4: the three shared counters never decrease, and once the workers have
\* finished every item with a terminal status has been counted once in
\* processed and once in exactly one of success and failed
C4_CountersPerItem ==
  /\ [][\A c \in CounterNames : counter'[c] >= counter[c]]_vars
  /\ [](WorkersDone =>
          /\ counter["processed"] = Cardinality(Terminal)
          /\ counter["success"] + counter["failed"] = Cardinality(Terminal)
          /\ \A d \in Terminal : Len(recorded[d]) = 1)

\* C5: no increment of a shared counter is lost: whenever the lock of a counter
\* is free, and so after all workers have finished, the counter is the number
\* of increments the workers performed on it
C5_NoLostIncrement ==
  /\ \A c \in CounterNames : LockFree(c) => counter[c] = incs[c]
  /\ WorkersDone => \A c \in CounterNames : counter[c] = incs[c]

\* two workers have finished after incrementing the same counter
C5_Witness ==
  /\ WorkersDone
  /\ Len(dataset) = 2 /\ claims[1] = <<1>> /\ claims[2] = <<2>>
  /\ incs["processed"] = 2

\* C6: in run_parallel with limit L > 0 and W workers the directories dispatched
\* are the first min(n, L*W) of the n pending ones in order, no more than L*W
\* are processed, and with L = 0 all n are dispatched
C6_ParallelCap ==
  (mode = "batch" /\ pc # "start" /\ Len(dataset) > 0) =>
    LET eligible == SelectSeq(AllDirs, WasPending)
        n == Len(eligible)
        m == IF max_dirs > 0 THEN Min(n, max_dirs * num_processes) ELSE n
    IN /\ dirs = SubSeq(eligible, 1, m)
       /\ max_dirs > 0 => processed_count <= max_dirs * num_processes
       /\ \A d \in DOMAIN claims : claims[d] # <<>> => d \in Range(dirs)

\* two workers, three pending directories, the limit cuts them to two and both
\* are processed
C6_Witness ==
  /\ mode = "batch" /\ pc = "done"
  /\ max_dirs > 0 /\ num_processes = 2
  /\ Len(dirs) < Len(SelectSeq(AllDirs, WasPending))
  /\ processed_count = max_dirs * num_processes

\* C7: after enumeration the pending directories are the ones that had both
\* inputs and no complete outputs, and the skipped ones are the ones whose
\* outputs were complete
C7_EnumerationPending ==
  (pc # "start" /\ Len(dataset) > 0) =>
    /\ skipped_dirs = SelectSeq(AllDirs, WasComplete)
    /\ \A k \in 1..Len(dirs) : WasPending(dirs[k])
    /\ max_dirs = 0 => dirs = SelectSeq(AllDirs, WasPending)

\* C8: on a dataset whose directories all have complete outputs a run, single
\* or parallel, starts no browser, touches no directory, processes nothing and
\* exits with 0
C8_AllCompleteNoOp ==
  (Len(dataset) > 0 /\ \A d \in DOMAIN dataset : WasComplete(d)) =>
    /\ processed_count = 0 /\ stats.processed = 0
    /\ \A d \in DOMAIN claims : claims[d] = <<>>
    /\ live = {} /\ fs = dataset
    /\ result # "False"
    /\ pc = "done" => exit_code = 0

\* a parallel run over two complete directories has exited
C8_Witness ==
  /\ mode = "batch" /\ num_processes = 2 /\ pc = "done"
  /\ Len(dataset) = 2 /\ \A d \in DOMAIN dataset : WasComplete(d)

C10_InitFailureSummary ==
  (mode = "batch" /\ pc = "done" /\ dirs # <<>> /\ drivers = <<>>) =>
    /\ summary # <<>> /\ summary[1].successful = 0
    /\ exit_code = 1
    /\ ~escaped

\* C11: when one browser of a parallel run fails to initialise after others
\* came up, the others are not aborted: every dispatched directory is still
\* processed and the run ends with its summary
C11_PartialFailureContinues ==
  (mode = "batch" /\ pc = "done" /\ drivers # <<>>
     /\ Len(drivers) < Min(num_processes, Len(dirs))) =>
    /\ summary # <<>>
    /\ \A d \in Range(dirs) : recorded[d] # <<>>

\* C12: no summary computation divides by zero: no ZeroDivisionError leaves a
\* run, and in a summary with successful = 0 the averages printed are not
\* computed and the averages written are not computed or are 0
C12_NoDivisionByZero ==
  /\ ~escaped
  /\ (summary # <<>> /\ mode # "queue" /\ summary[1].successful = 0) =>
       /\ \A f \in {"avg_time", "hourly_rate"} :
            /\ summary[1].shown[f] = NotComputed
            /\ summary[1].saved[f] \in {NotComputed, Zero}

\* a run that processed directories has written a summary with no success
C12_Witness ==
  /\ summary # <<>> /\ mode = "single"
  /\ summary[1].successful = 0 /\ summary[1].processed > 0

\* C13: a run that has started processing directories does not end without its
\* summary printed and saved, whatever failed or raised on the way
C13_SummaryAlwaysWritten ==
  (pc = "done" /\ \E d \in DOMAIN claims : claims[d] # <<>>) => summary # <<>>

\* C14: every directory processed adds one to the processed counter whatever
\* its outcome, and the recorded durations are exactly one per succeeded
\* directory
C14_ProcessedAndDurations ==
  /\ (mode = "single" /\ ~raised) =>
       /\ stats.processed = Cardinality({d \in DOMAIN claims : claims[d] # <<>>})
       /\ Len(stats.processing_times) = stats.successful
  /\ mode = "batch" =>
       /\ processed_count = Cardinality(Terminal)
       /\ Len(processing_times) = successful_count

\* C15: in run_parallel no directory is handed to a browser, and nothing is
\* processed or written, before the operator has confirmed the login of all
\* browsers; a run without that confirmation processes nothing
C15_ConfirmBeforeDispatch ==
  (mode = "batch" /\ ~confirmed) =>
    /\ \A d \in DOMAIN claims : claims[d] = <<>>
    /\ processing_tasks = <<>>
    /\ processed_count = 0
    /\ fs = dataset

\* a confirmed parallel run has handed a directory to a browser
C15_Witness ==
  /\ mode = "batch" /\ confirmed
  /\ \E d \in DOMAIN claims : claims[d] # <<>>

\* C16: in run_parallel every browser gets a profile directory of its own: no
\* two browsers of a run are given the same directory
C16_ProfilesDistinct ==
  \A j, k \in 1..Len(profiles) : j # k => profiles[j] # profiles[k]

\* two browsers of one run have been given their profile directories
C16_Witness ==
  /\ mode = "batch"
  /\ Len(profiles) = 2 /\ Len(drivers) = 2

\* C17: once the capture of a directory's result has been attempted, whether
\* it succeeded or failed, the directory holds an output image and a status
\* text file, a placeholder if the capture failed
C17_OutputsAlwaysLeft ==
  \A k \in 1..Len(processing_tasks) :
    (k < cap_i /\ processing_tasks[k].status # "error") =>
      /\ fs[processing_tasks[k].dir].output_png # "absent"
      /\ fs[processing_tasks[k].dir].output_txt # "absent"

\* C18: a directory is counted as succeeded only if a real generated image was
\* saved for it: one whose capture failed is never counted as succeeded
C18_NoArtifactNoSuccess ==
  \A d \in DOMAIN recorded :
    "Succeeded" \in Range(recorded[d]) => fs[d].output_png = "data"

\* C19: a run ends with a failure result before its summary only when the
\* dataset root is missing or holds no directory, or, in single mode, when the
\* login failed; no other failure ends a run early
C19_OnlyRootOrAuthAbort ==
  (pc = "done" /\ result = "False" /\ summary = <<>>) =>
    \/ Len(dataset) = 0
    \/ mode = "single" /\ driver # <<>> /\ ~confirmed

\* a worker that ended without reporting its times: its initialisation failed
InitFailed(w) ==
  /\ wpc[w] = "terminated"
  /\ \A m \in result_queue : ~(m.kind = "worker" /\ m.worker_id = w)

\* C20: a worker makes at most max_retries = 3 attempts to start its browser;
\* it takes directories only with a browser that started, and after a third
\* failure it ends for good with no directory taken, no exception leaving it
\* and no other worker or the queue touched
C20_BoundedInitRetries ==
  /\ [](\A w \in Workers :
          /\ attempt[w] <= max_retries - 1
          /\ wpc[w] \in {"get", "inc", "inc_write"} =>
               (wdriver[w] # <<>> /\ Range(wdriver[w]) \subseteq live)
          /\ InitFailed(w) => \A d \in DOMAIN claims : w \notin Range(claims[d])
          /\ ~escaped)
  /\ [][\A w \in Workers :
          /\ (wpc[w] = "init" /\ attempt[w] = max_retries - 1 /\ wpc'[w] = "init")
               => attempt'[w] = attempt[w]
          /\ wpc[w] = "terminated" => wpc'[w] = "terminated"
          /\ (wpc[w] = "init" /\ wpc'[w] = "terminated") =>
               /\ dir_queue' = dir_queue
               /\ \A v \in Workers \ {w} : wpc'[v] = wpc[v] /\ wdriver'[v] = wdriver[v]]_vars

\* one worker has given up after its third failed attempt and the other has
\* taken a directory
C20_Witness ==
  /\ InitFailed(1)
  /\ \E d \in DOMAIN claims : claims[d] = <<2>>

\* C21: the delay a worker sleeps after its k-th failed attempt to start its
\* browser is 3^(k-1) seconds: 1 s after the first failure, 3 s after the second
C21_BackoffTriples ==
  \A w \in Workers :
    (wpc[w] = "init" /\ attempt[w] > 0) => backoff[w] = 3 ^ (attempt[w] - 1)

\* C22: an item taken from the queue is never put back and never taken again:
\* the queue only shrinks, a claimed item is not on the queue and is claimed
\* once, an item no worker holds any more has one status, and a worker that
\* has counted an item as failed goes on to take the next one
C22_NoRequeue ==
  /\ [](\A d \in DOMAIN claims :
          /\ Len(claims[d]) <= 1
          /\ claims[d] # <<>> => d \notin Range(dir_queue)
          /\ Len(recorded[d]) <= 1
          /\ (claims[d] # <<>> /\ d \notin InFlight) => Len(recorded[d]) = 1)
  /\ [][/\ pc # "start" =>
             \/ dir_queue' = dir_queue
             \/ dir_queue # <<>> /\ dir_queue' = Tail(dir_queue)
        /\ \A w \in Workers :
             (wpc[w] = "inc_write" /\ Head(todo[w]) = "failed" /\ wpc'[w] # wpc[w]) =>
               /\ wpc'[w] = "get"
               /\ directory[w] # 0 => recorded'[directory[w]] = <<"Failed">>]_vars

\* a worker whose first item raised has counted it as failed and is back at
\* the queue, where the second item still waits
C22_Witness ==
  /\ mode = "queue"
  /\ dir_queue = <<2>>
  /\ \E w \in Workers :
       /\ wpc[w] = "get" /\ claims[1] = <<w>>
       /\ recorded[1] = <<"Failed">>
       /\ recoveries[w] # <<>> /\ recoveries[w][1] # <<>>

\* C23: every pass of a worker's loop either takes an item from the queue or
\* ends the worker with its browser released; no pass goes back to the queue
\* without an item taken, so a worker ends once the queue is exhausted
C23_EveryPassClaimsOrEnds ==
  [][\A w \in Workers :
       (wpc[w] = "get" /\ wpc'[w] # "get") =>
         \/ wpc'[w] = "terminated" /\ Range(wdriver[w]) \cap live' = {}
         \/ dir_queue # <<>> /\ directory'[w] = Head(dir_queue)
                             /\ dir_queue' = Tail(dir_queue)]_vars

\* the last pass of worker w's loop ended in the exception handler
Handled(w) == recoveries[w] # <<>> /\ recoveries[w][Len(recoveries[w])] # <<>>

\* C24: when processing a taken item raises, the worker makes exactly one
\* refresh in that pass, and whether the refresh worked or not the item is
\* recorded as failed, once, and the worker goes back to the queue
C24_OneRecoveryThenFailed ==
  /\ [][\A w \in Workers :
          (wpc[w] = "get" /\ wpc'[w] = "inc" /\ todo'[w] = <<"failed">>
             /\ directory'[w] # 0) =>
            /\ Len(recoveries'[w]) = Len(recoveries[w]) + 1
            /\ Len(recoveries'[w][Len(recoveries'[w])]) = 1
            /\ SubSeq(recoveries'[w], 1, Len(recoveries[w])) = recoveries[w]]_vars
  /\ [][\A w \in Workers :
          (wpc[w] = "inc_write" /\ Handled(w) /\ directory[w] # 0) =>
            /\ wpc'[w] \in {"inc_write", "get"}
            /\ wpc'[w] = "get" =>
                 /\ recorded'[directory[w]] = <<"Failed">>
                 /\ recoveries'[w] = recoveries[w]
                 /\ wdriver'[w] = wdriver[w] /\ Range(wdriver[w]) \subseteq live']_vars
  /\ [](\A w \in Workers :
          (wpc[w] \in Busy /\ Handled(w)) => todo[w] = <<"failed">>)

\* a worker whose item raised and whose refresh failed has recorded the item
\* as failed and is back at the queue
C24_Witness ==
  \E w \in Workers :
    /\ wpc[w] = "get" /\ directory[w] # 0
    /\ Handled(w) /\ recoveries[w][Len(recoveries[w])] = <<"failed">>
    /\ recorded[directory[w]] = <<"Failed">>

\* the number of passes at the end of worker w's loop whose refresh failed
RECURSIVE FailedStreak(_)
FailedStreak(h) ==
  IF h = <<>> \/ h[Len(h)] # <<"failed">> THEN 0
  ELSE 1 + FailedStreak(SubSeq(h, 1, Len(h) - 1))

\* C25: a worker whose refresh has failed in two passes in a row takes no
\* further item: once it has counted the failure it is not back at the queue
\* but has ended, and the other workers are left as they were
C25_SecondFailedRecoveryEnds ==
  \A w \in Workers :
    (FailedStreak(recoveries[w]) >= 2 /\ wpc[w] \notin Busy) => wpc[w] = "terminated"

\* the live browser sessions started for worker slot w
SessionsOf(w) == {x \in live : x[1] = w}

\* C26: at every moment a worker slot has at most one live browser session,
\* also between two attempts to start it, and no session is held by two slots
C26_OneSessionPerSlot ==
  /\ \A w \in Workers : Cardinality(SessionsOf(w)) <= 1
  /\ \A v, w \in Workers :
       (v # w /\ wdriver[v] # <<>>) => wdriver[v] # wdriver[w]

\* C27: when run or run_parallel has returned, on whatever path, every browser
\* session started during the run has been quit
C27_AllSessionsClosed ==
  pc \in {"returned", "done"} => live = {}

\* C28: the waiting loop of a batch declares all images generated only when
\* every task of the batch that did not fail during setup has been seen ready
C28_AllReadyWhenCompleted ==
  all_completed =>
    \A k \in 1..Len(processing_tasks) :
      processing_tasks[k].status \in {"error", "ready"}

\* C29: a directory counted as failed in a run is pending for the enumeration
\* of the next run: the files its failed item left do not make it complete
C29_FailedStaysPending ==
  \A d \in DOMAIN recorded :
    (recorded[d] # <<>> /\ recorded[d][Len(recorded[d])] = "Failed") =>
      /\ d \notin Range(ParallelSkipped) /\ d \in Range(ParallelPending)
      /\ d \notin Range(SingleSkipped) /\ d \in Range(SinglePending)

\* C30: once the processor is constructed its user_profile is the
\* browser_profile of the loaded configuration, and that is the profile the
\* browsers of a run are started with
C30_ProfileFromConfig ==
  /\ user_profile = config.browser_profile
  /\ \A k \in 1..Len(profiles) : profiles[k][1] = config.browser_profile

=============================================================================
